---- MODULE Spec2Model ----
(***************************************************************************)
(* The agromanagement scheduler of PCSE (src/agromanager.py): CropCalendar, *)
(* TimedEventsDispatcher, StateEventsDispatcher and AgroManager.            *)
(*                                                                          *)
(* Dates are day numbers (integers); the Python value None is NoDate for a  *)
(* date and "none" for a string.  Every method is an operator on the        *)
(* object's record, returning the new record and the signals it sent; the   *)
(* actions of the specifications apply these operators.                     *)
(***************************************************************************)
EXTENDS Integers, Sequences, FiniteSets, TLC

----------------------------------------------------------------------------
(* Bounds of the model                                                      *)

MaxDay == 5           \* the driver ticks days 0..MaxDay
MaxStart == 2         \* latest crop_start_date of a stand-alone calendar
MaxDuration == 3      \* largest max_duration of a stand-alone calendar

(* None, where a date is expected (src/agromanager.py:395) *)
NoDate == -1

RECURSIVE SeqMax(_)
SeqMax(s) ==
    IF Len(s) = 1 THEN s[1]
    ELSE LET m == SeqMax(Tail(s)) IN IF s[1] >= m THEN s[1] ELSE m

----------------------------------------------------------------------------
(* The state                                                                *)

(* the manager, its driver and the signals it sent *)
VARIABLES
    m_status,                 \* "new", "ready", or "error": initialize raised
    m_err,                    \* the error initialize raised
    agromanagement,           \* the definition given to initialize
    campaign_start_dates, crop_calendars, timed_event_dispatchers,
    state_event_dispatchers, icampaign, tmp_date,
    m_start_date, m_end_date, \* _start_date, _end_date
    today,                    \* the day of the last __call__
    daily,                    \* every call so far was a daily tick
    emitted,                  \* the signals sent by the last __call__
    ticked,                   \* the bundles ticked by the last __call__
    retired,                  \* the campaigns whose bundle was popped
    dropped,                  \* those popped with their crop still in cycle
    terminated,               \* the terminate signals sent so far
    end_read,                 \* what reading end_date last gave
    te_log                    \* the timed events sent so far, in order

mgr_vars == <<m_status, m_err, agromanagement, campaign_start_dates,
              crop_calendars, timed_event_dispatchers,
              state_event_dispatchers, icampaign, tmp_date, m_start_date,
              m_end_date, today, daily, emitted, ticked, retired,
              dropped, terminated, end_read, te_log>>

(* a crop calendar on its own: the object, the day of its last tick, the    *)
(* signals of that tick, what it has sent so far, and what validate gave    *)
VARIABLES cal, cal_day, cal_out, cal_hist, cal_val

cal_vars == <<cal, cal_day, cal_out, cal_hist, cal_val>>

(* a timed-events dispatcher on its own: the constructor's arguments, the   *)
(* object, the day of its last tick and the signals of that tick            *)
VARIABLES ted_args, ted_obj, ted_day, ted_out

ted_vars == <<ted_args, ted_obj, ted_day, ted_out>>

(* a state-events dispatcher on its own: the object, the kiosk at its last  *)
(* tick, the signals of that tick, and the series it has seen so far        *)
VARIABLES sed_obj, sed_kiosk, sed_out, sed_hist

sed_vars == <<sed_obj, sed_kiosk, sed_out, sed_hist>>

vars == <<mgr_vars, cal_vars, ted_vars, sed_vars>>

----------------------------------------------------------------------------
(* The signals module (TestSignals)                                         *)

DefinedSignals == {"apply_npk", "irrigate", "crop_finish", "crop_start"}

SignalValue(name) ==
    CASE name = "apply_npk"   -> "APPLY_NPK"
      [] name = "irrigate"    -> "IRRIGATE"
      [] name = "crop_finish" -> "CROP_FINISH"
      [] name = "crop_start"  -> "CROP_START"

----------------------------------------------------------------------------
(* check_date_range                                                         *)

check_date_range(day, start, end) ==
    IF end = NoDate THEN start <= day
    ELSE start <= day /\ day < end

----------------------------------------------------------------------------
(* CropCalendar                                                             *)

EndTypes == {"maturity", "harvest", "earliest"}

CropCalendar_init(crop_id, crop_start_date, crop_start_type, crop_end_date, crop_end_type, max_duration) ==
    [crop_id |-> crop_id,
     crop_start_date |-> crop_start_date,
     crop_start_type |-> crop_start_type,
     crop_end_date |-> crop_end_date,
     crop_end_type |-> crop_end_type,
     max_duration |-> max_duration,
     duration |-> 0,
     in_crop_cycle |-> FALSE]

(* validate: "ok", or the error it raises.  The message of the first raise  *)
(* has one %s and is formatted with two arguments, so that the statement    *)
(* raises TypeError before exc.PCSEError is constructed; the second raise   *)
(* is the PCSEError about the campaign window.                              *)
CropCalendar_validate(cc, campaign_start_date, next_campaign_start_date) ==
    LET crop_end_date ==
            IF cc.crop_end_type = "maturity"
            THEN cc.crop_start_date + cc.max_duration
            ELSE cc.crop_end_date
    IN  IF cc.crop_start_date >= crop_end_date
        THEN "TypeError"
        ELSE IF ~check_date_range(cc.crop_start_date, campaign_start_date,
                                  next_campaign_start_date)
        THEN "crop_start_outside_campaign"
        ELSE "ok"

(* a variant that counts the days outside the crop cycle too *)
DurationAlwaysCounts(cc) == cc.duration + 1
(* if self.in_crop_cycle: self.duration += 1 *)
CropCalendar_count(cc) ==
    IF cc.in_crop_cycle THEN cc.duration + 1 ELSE cc.duration

(* a variant that finishes one day late: duration > max_duration *)
FinishStrictlyAfterMax(cc, day, duration) ==
    LET by_date == IF cc.crop_end_type \in {"harvest", "earliest"}
                      /\ day >= cc.crop_end_date
                   THEN "harvest" ELSE "none"
    IN  IF duration > cc.max_duration THEN "max_duration" ELSE by_date
(* a variant in which the date-based reason is kept when both tests match *)
HarvestTakesPrecedence(cc, day, duration) ==
    IF cc.crop_end_type \in {"harvest", "earliest"} /\ day >= cc.crop_end_date
    THEN "harvest"
    ELSE IF duration >= cc.max_duration THEN "max_duration" ELSE "none"
(* the finish_type decided at the end of a tick, "none" for None *)
CropCalendar_finish_type(cc, day, duration) ==
    LET by_date == IF cc.crop_end_type \in {"harvest", "earliest"}
                      /\ day >= cc.crop_end_date
                   THEN "harvest" ELSE "none"
    IN  IF duration >= cc.max_duration THEN "max_duration" ELSE by_date

(* a variant of the handler that also resets the duration *)
FinishResetsDuration(cc) ==
    [cc EXCEPT !.in_crop_cycle = FALSE, !.duration = 0]
(* _on_CROP_FINISH, the handler the calendar connects to crop_finish *)
CropCalendar_on_CROP_FINISH(cc) == [cc EXCEPT !.in_crop_cycle = FALSE]

(* __call__(day, drv): the calendar after the tick and the signals sent *)
CropCalendar_call(cc, day) ==
    LET counted == CropCalendar_count(cc)
        starts == (day = cc.crop_start_date)
        duration == IF starts THEN 0 ELSE counted
        in_cycle == starts \/ cc.in_crop_cycle
        finish_type == CropCalendar_finish_type(cc, day, duration)
        start_signal ==
            IF starts
            THEN << [signal |-> "CROP_START", day |-> day,
                     crop_id |-> cc.crop_id,
                     crop_start_type |-> cc.crop_start_type,
                     crop_end_type |-> cc.crop_end_type] >>
            ELSE << >>
        finish_signal ==
            IF finish_type # "none"
            THEN << [signal |-> "CROP_FINISH", day |-> day,
                     finish |-> finish_type, crop_delete |-> TRUE] >>
            ELSE << >>
    IN  [cc  |-> [cc EXCEPT !.duration = duration,
                            !.in_crop_cycle =
                                IF finish_type # "none" THEN FALSE
                                ELSE in_cycle],
         out |-> start_signal \o finish_signal]

CropCalendar_get_end_date(cc) ==
    IF cc.crop_end_type \in {"harvest", "earliest"}
    THEN cc.crop_end_date
    ELSE cc.crop_start_date + cc.max_duration

CropCalendar_get_start_date(cc) == cc.crop_start_date

CountSignal(out, name) ==
    Cardinality({i \in 1..Len(out) : out[i].signal = name})

----------------------------------------------------------------------------
(* A CropCalendar on its own, ticked daily from day 0, with crop-finish     *)
(* signals that other senders put on the bus.                               *)

CalendarInputs ==
    { CropCalendar_init("crop", s, "sowing", e, t, m) :
        s \in 0..MaxStart,
        e \in 0..MaxDay,
        t \in {"harvest", "earliest"},
        m \in 0..MaxDuration }
    \cup
    { CropCalendar_init("crop", s, "sowing", NoDate, "maturity", m) :
        s \in 0..MaxStart, m \in 0..MaxDuration }

CalInit ==
    /\ cal \in CalendarInputs
    /\ cal_day = NoDate
    /\ cal_out = << >>
    /\ cal_hist = [n_start |-> 0, n_finish |-> 0, n_finish_started |-> 0,
                   n_finish_idle |-> 0,
                   start_day |-> NoDate, finish_day |-> NoDate,
                   finish_reason |-> "none", external |-> FALSE]
    /\ cal_val = [campaign_start |-> NoDate, next_campaign_start |-> NoDate,
                  result |-> "none"]

(* the driver's daily tick of the calendar *)
CalTick ==
    /\ cal_day < MaxDay
    /\ LET day == cal_day + 1
           r == CropCalendar_call(cal, day)
           finished == CountSignal(r.out, "CROP_FINISH") > 0
           started == CountSignal(r.out, "CROP_START") > 0
           first == finished /\ cal_hist.n_finish = 0
       IN  /\ cal' = IF finished THEN CropCalendar_on_CROP_FINISH(r.cc)
                     ELSE r.cc
           /\ cal_day' = day
           /\ cal_out' = r.out
           /\ cal_hist' =
                [cal_hist EXCEPT
                   !.n_start = @ + CountSignal(r.out, "CROP_START"),
                   !.n_finish = @ + CountSignal(r.out, "CROP_FINISH"),
                   !.n_finish_started =
                       IF started \/ cal_hist.n_start > 0
                       THEN @ + CountSignal(r.out, "CROP_FINISH") ELSE @,
                   !.n_finish_idle =
                       IF ~started /\ ~cal.in_crop_cycle
                       THEN @ + CountSignal(r.out, "CROP_FINISH") ELSE @,
                   !.start_day = IF started /\ @ = NoDate THEN day ELSE @,
                   !.finish_day = IF first THEN day ELSE @,
                   !.finish_reason =
                       IF first
                       THEN r.out[Len(r.out)].finish
                       ELSE @]
    /\ UNCHANGED cal_val
    /\ UNCHANGED <<mgr_vars, ted_vars, sed_vars>>

(* a crop-finish signal sent by another object reaches the calendar *)
CalExternalFinish ==
    /\ cal_day < MaxDay
    /\ cal' = CropCalendar_on_CROP_FINISH(cal)
    /\ cal_hist' = [cal_hist EXCEPT !.external = TRUE]
    /\ UNCHANGED <<cal_day, cal_out, cal_val>>
    /\ UNCHANGED <<mgr_vars, ted_vars, sed_vars>>

(* validate is called on the new calendar with the window of a campaign,    *)
(* next_campaign_start_date being None for the last campaign                *)
CalValidate ==
    /\ cal_day = NoDate
    /\ cal_val.result = "none"
    /\ \E cs \in 0..MaxStart, ncs \in {NoDate} \cup (0..MaxDay) :
          cal_val' = [campaign_start |-> cs, next_campaign_start |-> ncs,
                      result |-> CropCalendar_validate(cal, cs, ncs)]
    /\ UNCHANGED <<cal, cal_day, cal_out, cal_hist>>
    /\ UNCHANGED <<mgr_vars, ted_vars, sed_vars>>

----------------------------------------------------------------------------
(* TimedEventsDispatcher                                                    *)
(* events_table is a sequence of entries [day, kwargs]: one Python dict     *)
(* {day: kwargs} each.                                                      *)

(* the Counter built over the entries' days *)
DaysCounter(events_table) ==
    [d \in {events_table[i].day : i \in 1..Len(events_table)} |->
        Cardinality({i \in 1..Len(events_table) : events_table[i].day = d})]

(* a variant that tolerates a day with two entries *)
MultiDaysAboveTwo(days_with_events) ==
    {d \in DOMAIN days_with_events : days_with_events[d] > 2}
(* the days the constructor collects in multi_days *)
MultiDays(days_with_events) ==
    {d \in DOMAIN days_with_events : days_with_events[d] > 1}

(* __init__: the dispatcher, or the error raised (status) *)
TimedEventsDispatcher_init(event_signal, name, events_table) ==
    LET days_with_events == DaysCounter(events_table)
        st == IF event_signal \notin DefinedSignals
                  THEN "signal_not_defined"
                  ELSE IF MultiDays(days_with_events) # {}
                  THEN "multi_days"
                  ELSE "ok"
    IN  [status |-> st,
         name |-> name,
         event_signal |-> IF event_signal \in DefinedSignals
                          THEN SignalValue(event_signal) ELSE "none",
         events_table |-> events_table,
         days_with_events |-> days_with_events]

(* a variant of validate that accepts every table *)
TimedValidateSkipped(self, campaign_start_date, next_campaign_start_date) ==
    "ok"
(* validate: "ok", or the error it raises *)
TimedEventsDispatcher_validate(self, campaign_start_date, next_campaign_start_date) ==
    IF \E i \in 1..Len(self.events_table) :
          ~check_date_range(self.events_table[i].day, campaign_start_date,
                            next_campaign_start_date)
    THEN "timed_event_outside_campaign"
    ELSE "ok"

RECURSIVE EventsOn(_, _, _)
EventsOn(events_table, signal, day) ==
    IF events_table = << >> THEN << >>
    ELSE (IF Head(events_table).day = day
          THEN << [signal |-> signal, kwargs |-> Head(events_table).kwargs] >>
          ELSE << >>)
         \o EventsOn(Tail(events_table), signal, day)

(* a variant that sends the events of the day before again *)
YesterdaySentAgain(self, day) ==
    EventsOn(self.events_table, self.event_signal, day)
    \o EventsOn(self.events_table, self.event_signal, day - 1)
(* __call__(day): the signals sent *)
TimedEventsDispatcher_call(self, day) ==
    IF day \notin DOMAIN self.days_with_events THEN << >>
    ELSE EventsOn(self.events_table, self.event_signal, day)

(* get_end_date: max() of an empty Counter raises ValueError *)
TimedEventsDispatcher_get_end_date_raises(self) ==
    DOMAIN self.days_with_events = {}

TimedEventsDispatcher_get_end_date(self) ==
    CHOOSE d \in DOMAIN self.days_with_events :
        \A e \in DOMAIN self.days_with_events : e <= d

----------------------------------------------------------------------------
(* A TimedEventsDispatcher on its own: constructed, then ticked daily.      *)

MaxEvents == 3        \* longest events table
MaxEventDay == 2      \* latest day of an entry

SeqsUpTo(S, n) == UNION {[1..k -> S] : k \in 0..n}

(* entry i of a table carries the payload [amount |-> i] *)
EventsTable(days) ==
    [i \in 1..Len(days) |-> [day |-> days[i], kwargs |-> [amount |-> i]]]

TEInit ==
    /\ ted_args \in [event_signal : {"apply_npk", "irrigate", "terminate"},
                     events_table :
                        {EventsTable(ds) :
                            ds \in SeqsUpTo(0..MaxEventDay, MaxEvents)}]
    /\ ted_obj = [status |-> "new"]
    /\ ted_day = NoDate
    /\ ted_out = << >>

TEConstruct ==
    /\ ted_obj.status = "new"
    /\ ted_obj' = TimedEventsDispatcher_init(ted_args.event_signal, "table",
                                         ted_args.events_table)
    /\ UNCHANGED <<ted_args, ted_day, ted_out>>
    /\ UNCHANGED <<mgr_vars, cal_vars, sed_vars>>

TETick ==
    /\ ted_obj.status = "ok"
    /\ ted_day < MaxDay
    /\ ted_day' = ted_day + 1
    /\ ted_out' = TimedEventsDispatcher_call(ted_obj, ted_day + 1)
    /\ UNCHANGED <<ted_args, ted_obj>>
    /\ UNCHANGED <<mgr_vars, cal_vars, sed_vars>>

----------------------------------------------------------------------------
(* StateEventsDispatcher                                                    *)
(* events_table is a sequence of entries [state, kwargs]: one Python dict   *)
(* {state: kwargs} each.  The kiosk is a function from the names of the     *)
(* published variables to their values.                                     *)

ZeroConditions == {"rising", "falling", "either"}

(* None in previous_signs (src/agromanager.py:277) *)
NoSign == 2

(* cmp(x, 0) *)
Sign(x) == IF x < 0 THEN -1 ELSE IF x = 0 THEN 0 ELSE 1

StatesCounter(events_table) ==
    [s \in {events_table[i].state : i \in 1..Len(events_table)} |->
        Cardinality({i \in 1..Len(events_table) : events_table[i].state = s})]

(* the _zero_condition_* methods: the sign returned and whether the signal  *)
(* was sent                                                                 *)
(* a variant of the falling test that also fires when the previous sign is 0 *)
FallingFromZeroToo(current_state, state, zero_condition_sign) ==
    LET sign == Sign(current_state - state)
    IN  [sign |-> sign,
         fire |-> zero_condition_sign # NoSign
                  /\ zero_condition_sign \in {0, 1} /\ sign \in {-1, 0}]
zero_condition_falling(current_state, state, zero_condition_sign) ==
    LET sign == Sign(current_state - state)
    IN  [sign |-> sign,
         fire |-> zero_condition_sign # NoSign
                  /\ zero_condition_sign = 1 /\ sign \in {-1, 0}]

(* a variant of the rising test that also fires when the previous sign is 0 *)
RisingFromZeroToo(current_state, state, zero_condition_sign) ==
    LET sign == Sign(current_state - state)
    IN  [sign |-> sign,
         fire |-> zero_condition_sign # NoSign
                  /\ zero_condition_sign \in {-1, 0} /\ sign \in {0, 1}]
zero_condition_rising(current_state, state, zero_condition_sign) ==
    LET sign == Sign(current_state - state)
    IN  [sign |-> sign,
         fire |-> zero_condition_sign # NoSign
                  /\ zero_condition_sign = -1 /\ sign \in {0, 1}]

zero_condition_either(current_state, state, zero_condition_sign) ==
    LET sign == Sign(current_state - state)
    IN  [sign |-> sign,
         fire |-> zero_condition_sign # NoSign
                  /\ \/ zero_condition_sign = 1 /\ sign \in {-1, 0}
                     \/ zero_condition_sign = -1 /\ sign \in {0, 1}]

(* self._evaluate_state, assigned from zero_condition in __init__ *)
evaluate_state(zero_condition, current_state, state, zero_condition_sign) ==
    CASE zero_condition = "falling" ->
            zero_condition_falling(current_state, state, zero_condition_sign)
      [] zero_condition = "rising" ->
            zero_condition_rising(current_state, state, zero_condition_sign)
      [] zero_condition = "either" ->
            zero_condition_either(current_state, state, zero_condition_sign)

(* __init__: the dispatcher, or the error raised (status) *)
StateEventsDispatcher_init(event_signal, event_state, zero_condition, name, events_table) ==
    LET states_with_events == StatesCounter(events_table)
        multi_states == {s \in DOMAIN states_with_events :
                            states_with_events[s] > 1}
        st == IF event_signal \notin DefinedSignals
                  THEN "signal_not_defined"
                  ELSE IF multi_states # {} THEN "multi_states"
                  ELSE "ok"
    IN  [status |-> st,
         name |-> name,
         event_signal |-> IF event_signal \in DefinedSignals
                          THEN SignalValue(event_signal) ELSE "none",
         event_state |-> event_state,
         zero_condition |-> zero_condition,
         events_table |-> events_table,
         previous_signs |-> [i \in 1..Len(events_table) |-> NoSign]]

(* the evaluation of entry i in __call__ *)
EvaluateEntry(self, kiosk, i) ==
    evaluate_state(self.zero_condition, kiosk[self.event_state],
                   self.events_table[i].state, self.previous_signs[i])

RECURSIVE StateSignals(_, _, _)
StateSignals(self, kiosk, i) ==
    IF i > Len(self.events_table) THEN << >>
    ELSE (IF EvaluateEntry(self, kiosk, i).fire
          THEN << [signal |-> self.event_signal,
                   kwargs |-> self.events_table[i].kwargs] >>
          ELSE << >>)
         \o StateSignals(self, kiosk, i + 1)

(* a variant that keeps the old sign of an entry that sent its signal *)
SignKeptWhenFired(self, kiosk) ==
    IF self.event_state \notin DOMAIN kiosk
    THEN [sed |-> self, out |-> << >>]
    ELSE [sed |-> [self EXCEPT !.previous_signs =
                      [i \in 1..Len(self.events_table) |->
                          IF EvaluateEntry(self, kiosk, i).fire
                          THEN self.previous_signs[i]
                          ELSE EvaluateEntry(self, kiosk, i).sign]],
          out |-> StateSignals(self, kiosk, 1)]
(* __call__(day): the dispatcher after the tick and the signals sent *)
StateEventsDispatcher_call(self, kiosk) ==
    IF self.event_state \notin DOMAIN kiosk
    THEN [sed |-> self, out |-> << >>]
    ELSE [sed |-> [self EXCEPT !.previous_signs =
                      [i \in 1..Len(self.events_table) |->
                          EvaluateEntry(self, kiosk, i).sign]],
          out |-> StateSignals(self, kiosk, 1)]

----------------------------------------------------------------------------
(* A StateEventsDispatcher on its own, watching the variable DVS that the   *)
(* simulation sets (or has not yet published) before every tick.            *)

MaxState == 2         \* values and thresholds are 0..MaxState
MaxEntries == 2       \* longest state-events table
MaxTicks == 4         \* ticks of the stand-alone dispatcher

StateTable(states) ==
    [i \in 1..Len(states) |-> [state |-> states[i], kwargs |-> [amount |-> i]]]

EmptyKiosk == [n \in {} |-> 0]
KioskWith(v) == [n \in {"DVS"} |-> v]

SEInit ==
    /\ \E zc \in ZeroConditions, sig \in {"irrigate", "terminate"},
          states \in SeqsUpTo(0..MaxState, MaxEntries) :
          /\ states # << >>
          /\ sed_obj = StateEventsDispatcher_init(sig, "DVS", zc, "table",
                                              StateTable(states))
    /\ sed_kiosk = EmptyKiosk
    /\ sed_out = << >>
    /\ sed_hist = [n |-> 0, seen |-> FALSE, lo |-> 0, hi |-> 0, last |-> 0,
                   increasing |-> TRUE, present |-> TRUE,
                   fires |-> [i \in 1..Len(sed_obj.events_table) |-> 0],
                   fired_on |-> [i \in 1..Len(sed_obj.events_table) |-> << >>]]

(* fired(out, i): entry i sent its signal *)
Fired(out, i) == \E k \in 1..Len(out) : out[k].kwargs.amount = i

(* the simulation sets the kiosk, then the driver ticks the dispatcher *)
SETick ==
    /\ sed_obj.status = "ok"
    /\ sed_hist.n < MaxTicks
    /\ \E kiosk \in {EmptyKiosk} \cup {KioskWith(v) : v \in 0..MaxState} :
        LET r == StateEventsDispatcher_call(sed_obj, kiosk)
            here == "DVS" \in DOMAIN kiosk
        IN  /\ sed_obj' = r.sed
            /\ sed_kiosk' = kiosk
            /\ sed_out' = r.out
            /\ sed_hist' =
                 [n |-> sed_hist.n + 1,
                  seen |-> sed_hist.seen \/ here,
                  lo |-> IF here /\ (~sed_hist.seen
                                      \/ kiosk["DVS"] < sed_hist.lo)
                         THEN kiosk["DVS"] ELSE sed_hist.lo,
                  hi |-> IF here /\ (~sed_hist.seen
                                      \/ kiosk["DVS"] > sed_hist.hi)
                         THEN kiosk["DVS"] ELSE sed_hist.hi,
                  last |-> IF here THEN kiosk["DVS"] ELSE sed_hist.last,
                  increasing |-> sed_hist.increasing
                                 /\ (here /\ sed_hist.seen
                                        => kiosk["DVS"] >= sed_hist.last),
                  present |-> sed_hist.present /\ here,
                  fires |-> [i \in 1..Len(sed_obj.events_table) |->
                                sed_hist.fires[i]
                                + (IF Fired(r.out, i) THEN 1 ELSE 0)],
                  fired_on |-> [i \in 1..Len(sed_obj.events_table) |->
                                IF Fired(r.out, i)
                                THEN <<sed_obj.previous_signs[i],
                                       r.sed.previous_signs[i]>>
                                ELSE sed_hist.fired_on[i]]]
    /\ UNCHANGED <<mgr_vars, cal_vars, ted_vars>>

----------------------------------------------------------------------------
(* AgroManager                                                              *)
(* agromanagement is a sequence of campaigns [start, body]: one Python dict *)
(* {start: body} each.  None is the record [isNone |-> TRUE].               *)

None == [isNone |-> TRUE]

(* date(1,1,1), the least date (src/agromanager.py:485) *)
DateMin == 0

Max2(a, b) == IF a >= b THEN a ELSE b

(* _check_campaign_date over the campaigns in order: the _tmp_date left and *)
(* the error raised, if any.  _tmp_date is assigned once, from the first    *)
(* campaign.                                                                *)
RECURSIVE check_campaign_dates(_, _)
check_campaign_dates(dates, tmp) ==
    IF dates = << >> THEN [err |-> "ok", tmp_date |-> tmp]
    ELSE IF Head(dates) < 0
    THEN [err |-> "campaign_not_a_date", tmp_date |-> tmp]
    ELSE IF tmp = NoDate
    THEN check_campaign_dates(Tail(dates), Head(dates))
    ELSE IF Head(dates) <= tmp
    THEN [err |-> "campaign_not_sequential", tmp_date |-> tmp]
    ELSE check_campaign_dates(Tail(dates), tmp)

(* the first status of a sequence that is not "ok" *)
RECURSIVE FirstError(_)
FirstError(statuses) ==
    IF statuses = << >> THEN "ok"
    ELSE IF Head(statuses) # "ok" THEN Head(statuses)
    ELSE FirstError(Tail(statuses))

(* _build_TimedEventDispatchers / _build_StateEventDispatchers *)
build_TimedEventDispatchers(event_definitions) ==
    [k \in 1..Len(event_definitions) |->
        TimedEventsDispatcher_init(event_definitions[k].event_signal,
                                   event_definitions[k].name,
                                   event_definitions[k].events_table)]

build_StateEventDispatchers(event_definitions) ==
    [k \in 1..Len(event_definitions) |->
        StateEventsDispatcher_init(event_definitions[k].event_signal,
                                   event_definitions[k].event_state,
                                   event_definitions[k].zero_condition,
                                   event_definitions[k].name,
                                   event_definitions[k].events_table)]

(* the body of initialize's second loop for campaign number cid: the three  *)
(* entries appended and the first error raised, if any                      *)
BuildCampaign(cid, campaign_def, campaign_start, next_campaign) ==
    IF campaign_def.isNone
    THEN [err |-> "ok",
          cc |-> [cid |-> cid, isNone |-> TRUE],
          te |-> [cid |-> cid, isNone |-> TRUE],
          se |-> [cid |-> cid, isNone |-> TRUE]]
    ELSE
    LET cc_def == campaign_def.CropCalendar
        te_def == campaign_def.TimedEvents
        se_def == campaign_def.StateEvents
        cc == CropCalendar_init(cc_def.crop_id, cc_def.crop_start_date,
                                cc_def.crop_start_type, cc_def.crop_end_date,
                                cc_def.crop_end_type, cc_def.max_duration)
        cc_err == IF cc_def.isNone THEN "ok"
                  ELSE CropCalendar_validate(cc, campaign_start,
                                             next_campaign)
        te_dsp == build_TimedEventDispatchers(te_def.tables)
        te_err ==
            IF te_def.isNone THEN "ok"
            ELSE FirstError(
                   [k \in 1..Len(te_dsp) |-> te_dsp[k].status]
                   \o [k \in 1..Len(te_dsp) |->
                         TimedEventsDispatcher_validate(
                             te_dsp[k], campaign_start, next_campaign)])
        se_dsp == build_StateEventDispatchers(se_def.tables)
        se_err == IF se_def.isNone THEN "ok"
                  ELSE FirstError([k \in 1..Len(se_dsp) |-> se_dsp[k].status])
    IN  [err |-> FirstError(<<cc_err, te_err, se_err>>),
         cc |-> IF cc_def.isNone THEN [cid |-> cid, isNone |-> TRUE]
                ELSE [cid |-> cid, isNone |-> FALSE, cc |-> cc],
         te |-> IF te_def.isNone THEN [cid |-> cid, isNone |-> TRUE]
                ELSE [cid |-> cid, isNone |-> FALSE, teds |-> te_dsp],
         se |-> IF se_def.isNone THEN [cid |-> cid, isNone |-> TRUE]
                ELSE [cid |-> cid, isNone |-> FALSE, seds |-> se_dsp]]

(* initialize(kiosk, agromanagement): the attributes set, or the error *)
AgroManager_initialize(definition) ==
    LET n == Len(definition)
        dates == [i \in 1..n |-> definition[i].start]
        checked == check_campaign_dates(dates, NoDate)
        start_dates == dates \o <<NoDate>>
        built == [i \in 1..n |->
                    BuildCampaign(i, definition[i].body,
                                  start_dates[i],
                                  start_dates[i + 1])]
        error == IF checked.err # "ok" THEN checked.err
               ELSE FirstError([i \in 1..n |-> built[i].err])
    IN  [err |-> error,
         tmp_date |-> checked.tmp_date,
         campaign_start_dates |-> start_dates,
         crop_calendars |-> [i \in 1..n |-> built[i].cc],
         timed_event_dispatchers |-> [i \in 1..n |-> built[i].te],
         state_event_dispatchers |-> [i \in 1..n |-> built[i].se]]

(* the end dates end_date collects, in the order of its loop: a sequence of *)
(* dates, with NoDate where get_end_date of an empty table raises           *)
RECURSIVE TableEndDates(_)
TableEndDates(teds) ==
    IF teds = << >> THEN << >>
    ELSE << IF TimedEventsDispatcher_get_end_date_raises(Head(teds))
            THEN NoDate
            ELSE TimedEventsDispatcher_get_end_date(Head(teds)) >>
         \o TableEndDates(Tail(teds))

RECURSIVE CalendarEndDates(_)
CalendarEndDates(ccs) ==
    IF ccs = << >> THEN << >>
    ELSE (IF Head(ccs).isNone THEN << >>
          ELSE << CropCalendar_get_end_date(Head(ccs).cc) >>)
         \o CalendarEndDates(Tail(ccs))

RECURSIVE DispatcherEndDates(_)
DispatcherEndDates(tes) ==
    IF tes = << >> THEN << >>
    ELSE (IF Head(tes).isNone THEN << >>
          ELSE TableEndDates(Head(tes).teds))
         \o DispatcherEndDates(Tail(tes))

(* the end_date property when _end_date is None: the value returned or the  *)
(* exception raised                                                         *)
AgroManager_compute_end_date(ccs, tes) ==
    LET cc_dates == CalendarEndDates(ccs)
        te_dates == DispatcherEndDates(tes)
    IN  IF \E k \in 1..Len(te_dates) : te_dates[k] = NoDate
        THEN [status |-> "ValueError", value |-> NoDate]
        ELSE IF cc_dates = << >> /\ te_dates = << >>
        THEN [status |-> "PCSEError", value |-> NoDate]
        ELSE [status |-> "ok",
              value |->
                LET e1 == IF cc_dates # << >>
                          THEN Max2(SeqMax(cc_dates), DateMin) ELSE DateMin
                IN  IF te_dates # << >>
                    THEN Max2(SeqMax(te_dates), e1) ELSE e1]

(* _on_CROP_FINISH, called directly: with campaigns left it returns; with  *)
(* none left it evaluates signals.terminate, which TestSignals does not    *)
(* define, and raises AttributeError before _send_signal is called.  It    *)
(* sends terminate in neither case.  No line of the source connects this   *)
(* handler to a signal, so __call__ never runs it.                         *)
AgroManager_on_CROP_FINISH(ccs) ==
    [raises |-> IF ccs = << >> THEN "AttributeError" ELSE "none",
     terminate |-> 0]

(* the handlers a crop-finish signal reaches: those connected to it, one   *)
(* of every calendar of the queue                                          *)
DeliverCropFinish(ccs) ==
    [i \in 1..Len(ccs) |->
        IF ccs[i].isNone THEN ccs[i]
        ELSE [ccs[i] EXCEPT !.cc = CropCalendar_on_CROP_FINISH(@)]]

(* the tick of the state-event dispatchers of one campaign, in list order *)
RECURSIVE TickStateDispatchers(_, _, _)
TickStateDispatchers(seds, kiosk, k) ==
    IF k > Len(seds) THEN [seds |-> seds, out |-> << >>]
    ELSE LET r == StateEventsDispatcher_call(seds[k], kiosk)
             rest == TickStateDispatchers([seds EXCEPT ![k] = r.sed],
                                          kiosk, k + 1)
         IN  [seds |-> rest.seds,
              out |-> [j \in 1..Len(r.out) |->
                          [group |-> "se", idx |-> k, sig |-> r.out[j]]]
                      \o rest.out]

(* a variant that calls only the first dispatcher of the campaign *)
OnlyFirstDispatcherCalled(teds, day, k) ==
    IF k > Len(teds) THEN << >>
    ELSE LET out == TimedEventsDispatcher_call(teds[k], day)
         IN  [j \in 1..Len(out) |->
                 [group |-> "te", idx |-> k, sig |-> out[j]]]
(* for ev_dsp in self.timed_event_dispatchers[0]: ev_dsp(day) *)
RECURSIVE TickTimedDispatchers(_, _, _)
TickTimedDispatchers(teds, day, k) ==
    IF k > Len(teds) THEN << >>
    ELSE LET out == TimedEventsDispatcher_call(teds[k], day)
         IN  [j \in 1..Len(out) |->
                 [group |-> "te", idx |-> k, sig |-> out[j]]]
             \o TickTimedDispatchers(teds, day, k + 1)

(* the look-ahead at the head of __call__: day is the start of the next    *)
(* campaign                                                                 *)
SwitchCampaign(start_dates, i, day) ==
    day = start_dates[i + 2]

(* a variant that does not count the campaign it switches to *)
CursorForgotten(i, switch) == i
(* self._icampaign += 1 when the campaign switches *)
NextCampaign(i, switch) == IF switch THEN i + 1 ELSE i

(* a variant that keeps the retiring bundle at the front *)
PopForgotten(queue, switch) == queue
(* pop(0) of a queue when the campaign switches *)
PopFront(queue, switch) == IF switch THEN Tail(queue) ELSE queue

(* the state-event signals sent before the timed-event signals *)
StateBeforeTimed(cc_out, te_out, se_out) ==
    [j \in 1..Len(cc_out) |-> [group |-> "cc", idx |-> 1, sig |-> cc_out[j]]]
    \o se_out \o te_out
(* the signals of one call in the order of its three blocks *)
CallOrder(cc_out, te_out, se_out) ==
    [j \in 1..Len(cc_out) |-> [group |-> "cc", idx |-> 1, sig |-> cc_out[j]]]
    \o te_out \o se_out

(* __call__(day, drv) on the manager's attributes m, with the kiosk as the  *)
(* simulation left it: the attributes after the call, the signals sent in   *)
(* order, the bundles that received the tick, the bundle retired and        *)
(* whether its crop was still in its cycle                                  *)
AgroManager_call(m, day, kiosk) ==
    LET switch == SwitchCampaign(m.campaign_start_dates, m.icampaign, day)
        ccs0 == PopFront(m.crop_calendars, switch)
        tes0 == PopFront(m.timed_event_dispatchers, switch)
        ses0 == PopFront(m.state_event_dispatchers, switch)
        \* the crop calendar
        cc_r == CropCalendar_call(ccs0[1].cc, day)
        cc_out == IF ccs0[1].isNone THEN << >> ELSE cc_r.out
        finished == CountSignal(cc_out, "CROP_FINISH") > 0
        ccs1 == IF ccs0[1].isNone THEN ccs0
                ELSE [ccs0 EXCEPT ![1].cc = cc_r.cc]
        ccs2 == IF finished THEN DeliverCropFinish(ccs1) ELSE ccs1
        \* the timed events
        te_out == IF tes0[1].isNone THEN << >>
                  ELSE TickTimedDispatchers(tes0[1].teds, day, 1)
        \* the state events
        se_r == TickStateDispatchers(ses0[1].seds, kiosk, 1)
        se_out == IF ses0[1].isNone THEN << >> ELSE se_r.out
        ses1 == IF ses0[1].isNone THEN ses0
                ELSE [ses0 EXCEPT ![1].seds = se_r.seds]
    IN  [m |-> [m EXCEPT
                  !.icampaign = NextCampaign(@, switch),
                  !.crop_calendars = ccs2,
                  !.timed_event_dispatchers = tes0,
                  !.state_event_dispatchers = ses1],
         out |-> CallOrder(cc_out, te_out, se_out),
         ticked |-> {[group |-> "cc", cid |-> ccs0[1].cid] :
                        x \in IF ccs0[1].isNone THEN {} ELSE {1}}
                    \cup {[group |-> "te", cid |-> tes0[1].cid] :
                        x \in IF tes0[1].isNone THEN {} ELSE {1}}
                    \cup {[group |-> "se", cid |-> ses0[1].cid] :
                        x \in IF ses0[1].isNone THEN {} ELSE {1}},
         retired |-> IF switch THEN {m.crop_calendars[1].cid} ELSE {},
         dropped |-> IF switch /\ ~m.crop_calendars[1].isNone
                     THEN {m.crop_calendars[1].cid :
                             x \in IF m.crop_calendars[1].cc.in_crop_cycle
                                   THEN {1} ELSE {}}
                     ELSE {},
         terminate |-> 0]

----------------------------------------------------------------------------
(* The agromanagement definitions the manager is initialised with           *)

MaxCampaigns == 3     \* most campaigns of a definition
MaxCampaignDay == 2   \* latest campaign start date

CalendarDef(start, end, end_type, max_duration) ==
    [isNone |-> FALSE, crop_id |-> "crop", crop_start_date |-> start,
     crop_start_type |-> "sowing", crop_end_date |-> end,
     crop_end_type |-> end_type, max_duration |-> max_duration]

TableDef(event_signal, days) ==
    [event_signal |-> event_signal, name |-> "timed", comment |-> "",
     events_table |-> EventsTable(days)]

StateDef(zero_condition, states) ==
    [event_signal |-> "irrigate", event_state |-> "DVS",
     zero_condition |-> zero_condition, name |-> "state", comment |-> "",
     events_table |-> StateTable(states)]

(* the bodies of a campaign that starts on day cs: fallow; a crop that      *)
(* matures after one day; a crop harvested the next day, with two tables of *)
(* timed events and two of state events; timed events only; an empty table  *)
Bodies(cs) ==
    { None,
      [isNone |-> FALSE,
       CropCalendar |-> CalendarDef(cs, NoDate, "maturity", 1),
       TimedEvents |-> None, StateEvents |-> None],
      [isNone |-> FALSE,
       CropCalendar |-> CalendarDef(cs, cs + 1, "harvest", 0),
       TimedEvents |-> [isNone |-> FALSE,
                        tables |-> << TableDef("apply_npk", <<cs>>),
                                      TableDef("irrigate", <<cs, cs + 1>>) >>],
       StateEvents |-> [isNone |-> FALSE,
                        tables |-> << StateDef("rising", <<1>>),
                                      StateDef("either", <<1>>) >>]],
      [isNone |-> FALSE, CropCalendar |-> None,
       TimedEvents |-> [isNone |-> FALSE,
                        tables |-> << TableDef("apply_npk", <<cs + 1>>) >>],
       StateEvents |-> None],
      [isNone |-> FALSE, CropCalendar |-> None,
       TimedEvents |-> [isNone |-> FALSE,
                        tables |-> << TableDef("irrigate", << >>) >>],
       StateEvents |-> None] }

Campaigns ==
    UNION {{[start |-> d, body |-> b] : b \in Bodies(d)} :
              d \in 0..MaxCampaignDay}

Definitions == UNION {[1..n -> Campaigns] : n \in 1..MaxCampaigns}

----------------------------------------------------------------------------
(* The manager, its driver and the simulation that sets the kiosk           *)

MgrInit ==
    /\ m_status = "new"
    /\ m_err = "ok"
    /\ agromanagement = << >>
    /\ campaign_start_dates = << >>
    /\ crop_calendars = << >>
    /\ timed_event_dispatchers = << >>
    /\ state_event_dispatchers = << >>
    /\ icampaign = 0
    /\ tmp_date = NoDate
    /\ m_start_date = NoDate
    /\ m_end_date = NoDate
    /\ today = NoDate
    /\ daily = TRUE
    /\ emitted = << >>
    /\ ticked = {}
    /\ retired = {}
    /\ dropped = {}
    /\ terminated = 0
    /\ end_read = [status |-> "none", value |-> NoDate]
    /\ te_log = << >>

(* AgroManager(kiosk, agromanagement) *)
Initialize ==
    /\ m_status = "new"
    /\ \E a \in Definitions :
        \E r \in {AgroManager_initialize(a)} :
            /\ agromanagement' = a
            /\ m_err' = r.err
            /\ IF r.err = "ok"
               THEN /\ m_status' = "ready"
                    /\ campaign_start_dates' = r.campaign_start_dates
                    /\ crop_calendars' = r.crop_calendars
                    /\ timed_event_dispatchers' = r.timed_event_dispatchers
                    /\ state_event_dispatchers' = r.state_event_dispatchers
                    /\ tmp_date' = r.tmp_date
               ELSE /\ m_status' = "error"
                    /\ UNCHANGED <<campaign_start_dates, crop_calendars,
                                   timed_event_dispatchers,
                                   state_event_dispatchers, tmp_date>>
    /\ UNCHANGED <<icampaign, m_start_date, m_end_date, today, emitted,
                   ticked, retired, dropped, terminated, end_read>>
    /\ UNCHANGED <<daily, te_log>>
    /\ UNCHANGED <<cal_vars, ted_vars, sed_vars>>

(* the start_date property *)
ReadStartDate ==
    /\ m_status = "ready"
    /\ m_start_date' = IF m_start_date = NoDate THEN campaign_start_dates[1]
                       ELSE m_start_date
    /\ UNCHANGED <<m_status, m_err, agromanagement, campaign_start_dates,
                   crop_calendars, timed_event_dispatchers,
                   state_event_dispatchers, icampaign, tmp_date, m_end_date,
                   today, emitted, ticked, retired, dropped, terminated,
                   end_read>>
    /\ UNCHANGED <<daily, te_log>>
    /\ UNCHANGED <<cal_vars, ted_vars, sed_vars>>

(* the end_date property *)
ReadEndDate ==
    /\ m_status = "ready"
    /\ LET r == IF m_end_date # NoDate
                THEN [status |-> "ok", value |-> m_end_date]
                ELSE AgroManager_compute_end_date(crop_calendars,
                                                  timed_event_dispatchers)
       IN  /\ end_read' = r
           /\ m_end_date' = IF r.status = "ok" THEN r.value ELSE m_end_date
    /\ UNCHANGED <<m_status, m_err, agromanagement, campaign_start_dates,
                   crop_calendars, timed_event_dispatchers,
                   state_event_dispatchers, icampaign, tmp_date, m_start_date,
                   today, emitted, ticked, retired, dropped, terminated>>
    /\ UNCHANGED <<daily, te_log>>
    /\ UNCHANGED <<cal_vars, ted_vars, sed_vars>>

Manager ==
    [campaign_start_dates |-> campaign_start_dates,
     crop_calendars |-> crop_calendars,
     timed_event_dispatchers |-> timed_event_dispatchers,
     state_event_dispatchers |-> state_event_dispatchers,
     icampaign |-> icampaign]

(* the timed events among the signals of a call for a day, each with the    *)
(* campaign of the bundle that sent it, its table and its table entry       *)
TimedSent(out, cid, day) ==
    LET te == SelectSeq(out, LAMBDA s : s.group = "te")
    IN  [j \in 1..Len(te) |->
            [cid |-> cid, idx |-> te[j].idx,
             entry |-> te[j].sig.kwargs.amount, day |-> day]]

(* the driver calls the manager for a day, the simulation having set the    *)
(* kiosk                                                                    *)
Call(day) ==
    /\ \E kiosk \in {EmptyKiosk, KioskWith(0), KioskWith(MaxState)} :
        \E r \in {AgroManager_call(Manager, day, kiosk)} :
            /\ today' = day
            /\ icampaign' = r.m.icampaign
            /\ crop_calendars' = r.m.crop_calendars
            /\ timed_event_dispatchers' = r.m.timed_event_dispatchers
            /\ state_event_dispatchers' = r.m.state_event_dispatchers
            /\ emitted' = r.out
            /\ ticked' = r.ticked
            /\ retired' = retired \cup r.retired
            /\ dropped' = dropped \cup r.dropped
            /\ terminated' = terminated + r.terminate
            /\ te_log' = te_log \o TimedSent(r.out,
                              r.m.timed_event_dispatchers[1].cid, day)
    /\ UNCHANGED <<m_status, m_err, agromanagement, campaign_start_dates,
                   tmp_date, m_start_date, m_end_date, end_read>>
    /\ UNCHANGED <<cal_vars, ted_vars, sed_vars>>

(* the day of the driver's next daily tick: start_date, then day after day *)
NextDay == IF today = NoDate THEN m_start_date ELSE today + 1

(* the driver's daily tick *)
Advance ==
    /\ m_status = "ready"
    /\ m_start_date # NoDate
    /\ today < MaxDay
    /\ Call(NextDay)
    /\ UNCHANGED daily

(* a driver that leaves days out: its call is for a later day *)
AdvanceSkipping ==
    /\ m_status = "ready"
    /\ m_start_date # NoDate
    /\ \E day \in (NextDay + 1)..MaxDay : Call(day)
    /\ daily' = FALSE

----------------------------------------------------------------------------
(* The specifications                                                       *)

CalIdle ==
    /\ cal = CropCalendar_init("crop", 0, "sowing", NoDate, "maturity", 0)
    /\ cal_day = NoDate
    /\ cal_out = << >>
    /\ cal_hist = [n_start |-> 0, n_finish |-> 0, n_finish_started |-> 0,
                   n_finish_idle |-> 0,
                   start_day |-> NoDate, finish_day |-> NoDate,
                   finish_reason |-> "none", external |-> FALSE]
    /\ cal_val = [campaign_start |-> NoDate, next_campaign_start |-> NoDate,
                  result |-> "none"]

TEIdle ==
    /\ ted_args = [event_signal |-> "apply_npk", events_table |-> << >>]
    /\ ted_obj = [status |-> "new"]
    /\ ted_day = NoDate
    /\ ted_out = << >>

SEIdle ==
    /\ sed_obj = [status |-> "new"]
    /\ sed_kiosk = EmptyKiosk
    /\ sed_out = << >>
    /\ sed_hist = [n |-> 0]

(* the manager *)
Init == MgrInit /\ CalIdle /\ TEIdle /\ SEIdle
Next == Initialize \/ ReadStartDate \/ ReadEndDate \/ Advance
           \/ AdvanceSkipping
Spec == Init /\ [][Next]_vars

(* a crop calendar on its own *)
InitCal == CalInit /\ MgrInit /\ TEIdle /\ SEIdle
NextCal == CalValidate \/ CalTick \/ CalExternalFinish
SpecCal == InitCal /\ [][NextCal]_vars

(* a timed-events dispatcher on its own *)
InitTE == TEInit /\ MgrInit /\ CalIdle /\ SEIdle
NextTE == TEConstruct \/ TETick
SpecTE == InitTE /\ [][NextTE]_vars

(* a state-events dispatcher on its own *)
InitSE == SEInit /\ MgrInit /\ CalIdle /\ TEIdle
NextSE == SETick
SpecSE == InitSE /\ [][NextSE]_vars

----------------------------------------------------------------------------
(* Properties                                                               *)

StartDates(definition) == [i \in 1..Len(definition) |-> definition[i].start]

StrictlyIncreasing(dates) ==
    \A i \in 1..(Len(dates) - 1) : dates[i] < dates[i + 1]

(* C1: initialize rejects the list of campaign start dates if and only if   *)
(* it is not strictly increasing: a definition it accepts has strictly      *)
(* increasing start dates, and it raises the error about the order of the   *)
(* campaigns only for a list that is not strictly increasing.               *)
C1_RejectsIffNotIncreasing ==
    /\ m_status = "ready" => StrictlyIncreasing(StartDates(agromanagement))
    /\ m_err = "campaign_not_sequential"
          => ~StrictlyIncreasing(StartDates(agromanagement))

(* C2: a calendar ticked daily sends one crop-start and, from its start on, *)
(* one crop-finish per activation: never a second crop-finish after the     *)
(* first.  Stated for the calendars that pass validate for a campaign that  *)
(* starts on day 0 and have max_duration > 0.                               *)
C2_OneStartOneFinish ==
    (CropCalendar_validate(cal, 0, NoDate) = "ok" /\ cal.max_duration > 0)
    => /\ cal_hist.n_start <= 1
       /\ cal_hist.n_finish_started <= cal_hist.n_start

(* C3: a run of daily ticks that has passed every campaign start date (and  *)
(* every end date of the definition) has exhausted the bundle queue and     *)
(* sent a terminate signal.  Stated for the definitions with strictly       *)
(* increasing start dates whose last campaign has a crop calendar, so that  *)
(* the run has seen a crop-finish after the last campaign started.          *)
C3_TerminateWhenExhausted ==
    (/\ m_status = "ready" /\ today = MaxDay /\ daily
     /\ StrictlyIncreasing(StartDates(agromanagement))
     /\ ~agromanagement[Len(agromanagement)].body.isNone
     /\ ~agromanagement[Len(agromanagement)].body.CropCalendar.isNone)
        => (crop_calendars = << >> /\ terminated > 0)

(* C4: the bundle of a retired campaign receives no tick: every bundle      *)
(* ticked by a call is the one of the campaign the call made active, not a  *)
(* retired one, and where the start dates are strictly increasing and the  *)
(* driver ticks daily no bundle is ticked on or after the start date of the *)
(* next campaign.                                                           *)
C4_SwapAtomic ==
    \A t \in ticked :
        /\ t.cid \notin retired
        /\ t.cid = icampaign + 1
        /\ (daily /\ StrictlyIncreasing(StartDates(agromanagement))
              /\ campaign_start_dates[t.cid + 1] # NoDate)
             => today < campaign_start_dates[t.cid + 1]

C4_Witness ==
    /\ retired # {}
    /\ today = campaign_start_dates[icampaign + 1]
    /\ Cardinality(ticked) = 3

(* C5: on a tick of the start day duration ends at 0; on any other tick it  *)
(* grows by exactly 1 if the calendar was in its cycle; it does not change  *)
(* on a tick that finds the calendar out of its cycle; and it only ever     *)
(* drops on a tick of the start day.                                        *)
C5_Duration ==
    [][cal_day' # cal_day =>
        /\ cal_day' = cal.crop_start_date => cal'.duration = 0
        /\ (cal_day' # cal.crop_start_date /\ cal.in_crop_cycle)
              => cal'.duration = cal.duration + 1
        /\ ~cal.in_crop_cycle => cal'.duration = cal.duration
        /\ cal'.duration < cal.duration => cal_day' = cal.crop_start_date
      ]_vars

C5_Witness == cal.in_crop_cycle /\ cal.duration >= 2

(* C6: a maturity calendar with max_duration M > 0 that no outside          *)
(* crop-finish reaches sends its crop-start on its start day and its first  *)
(* crop-finish, for the reason "max_duration", on start day + M, which is   *)
(* get_end_date(), and on no earlier day.                                   *)
C6_FinishAtMaxDuration ==
    (cal.crop_end_type = "maturity" /\ cal.max_duration > 0
       /\ ~cal_hist.external)
    => /\ cal_day >= cal.crop_start_date
            => (cal_hist.n_start = 1
                  /\ cal_hist.start_day = cal.crop_start_date)
       /\ cal_day < cal.crop_start_date => cal_hist.n_start = 0
       /\ cal_hist.finish_day # NoDate
            => /\ cal_hist.finish_day = cal.crop_start_date + cal.max_duration
               /\ cal_hist.finish_day = CropCalendar_get_end_date(cal)
               /\ cal_hist.finish_reason = "max_duration"
       /\ cal_day >= cal.crop_start_date + cal.max_duration
            => cal_hist.finish_day # NoDate

C6_Witness ==
    /\ cal.crop_end_type = "maturity" /\ cal.max_duration > 1
    /\ ~cal_hist.external
    /\ cal_hist.finish_day # NoDate

(* C7: a rising dispatcher that finds its variable on every tick: over a    *)
(* series that never decreases, an entry fires exactly once if the series   *)
(* starts below its threshold and reaches or passes it, on the tick where   *)
(* the sign goes from -1 to 0 or +1, and never otherwise; over any series   *)
(* that stays above or stays below the threshold it never fires.            *)
C7_RisingFiresOnce ==
    (sed_obj.status = "ok" /\ sed_obj.zero_condition = "rising"
       /\ sed_hist.seen /\ sed_hist.present)
    => \A i \in 1..Len(sed_obj.events_table) :
         LET threshold == sed_obj.events_table[i].state
             crossed == sed_hist.lo < threshold /\ sed_hist.hi >= threshold
         IN  /\ sed_hist.increasing
                  => sed_hist.fires[i] = IF crossed THEN 1 ELSE 0
             /\ (sed_hist.lo > threshold \/ sed_hist.hi < threshold)
                  => sed_hist.fires[i] = 0
             /\ sed_hist.fires[i] > 0
                  => sed_hist.fired_on[i] \in {<<-1, 0>>, <<-1, 1>>}

C7_Witness ==
    /\ sed_obj.status = "ok" /\ sed_obj.zero_condition = "rising"
    /\ sed_hist.present /\ sed_hist.increasing /\ sed_hist.n >= 3
    /\ \E i \in 1..Len(sed_obj.events_table) : sed_hist.fires[i] = 1

(* C8: with a defined signal name the constructor of a timed-events         *)
(* dispatcher fails if and only if two entries of its table have the same   *)
(* day.                                                                     *)
C8_FailsIffDuplicateDay ==
    (ted_obj.status # "new" /\ ted_args.event_signal \in DefinedSignals)
    => (ted_obj.status # "ok"
        <=> \E i, j \in 1..Len(ted_args.events_table) :
               /\ i < j
               /\ ted_args.events_table[i].day = ted_args.events_table[j].day)

C8_Witness == ted_obj.status = "multi_days"

(* the end dates a definition contributes: the end date of every crop       *)
(* calendar and the last day of every timed-events table that has one       *)
ContributedEndDates(definition) ==
    UNION { (IF definition[i].body.isNone
                \/ definition[i].body.CropCalendar.isNone
             THEN {}
             ELSE LET c == definition[i].body.CropCalendar
                  IN  {IF c.crop_end_type = "maturity"
                       THEN c.crop_start_date + c.max_duration
                       ELSE c.crop_end_date})
            \cup
            (IF definition[i].body.isNone
                \/ definition[i].body.TimedEvents.isNone
             THEN {}
             ELSE LET tables == definition[i].body.TimedEvents.tables
                  IN  {tables[k].events_table[e].day :
                         <<k, e>> \in
                           {p \in (1..Len(tables)) \X (1..MaxEvents) :
                              p[2] <= Len(tables[p[1]].events_table)}})
          : i \in 1..Len(definition) }

SetMax(S) == CHOOSE x \in S : \A y \in S : y <= x

(* C9: end_date is the latest of the end dates the definition contributes,  *)
(* and reading it fails, with a validation error, exactly when the          *)
(* definition contributes none.                                             *)
C9_EndDateIsLatest ==
    end_read.status # "none"
    => LET dates == ContributedEndDates(agromanagement)
       IN  IF dates = {} THEN end_read.status = "PCSEError"
           ELSE end_read.status = "ok" /\ end_read.value = SetMax(dates)

GroupRank(g) == CASE g = "cc" -> 1 [] g = "te" -> 2 [] g = "se" -> 3

(* C10: the signals of one call come in the order crop calendar, timed      *)
(* events in list order, state events in list order, and the calendar's     *)
(* crop-start comes before its crop-finish.                                 *)
C10_SignalOrder ==
    \A i, j \in 1..Len(emitted) :
        i < j =>
          /\ GroupRank(emitted[i].group) <= GroupRank(emitted[j].group)
          /\ emitted[i].group = emitted[j].group
                => emitted[i].idx <= emitted[j].idx
          /\ ~(emitted[i].sig.signal = "CROP_FINISH"
                 /\ emitted[j].sig.signal = "CROP_START")

C10_Witness ==
    /\ \E i \in 1..Len(emitted) : emitted[i].group = "cc"
    /\ \E i, j \in 1..Len(emitted) :
          emitted[i].group = "te" /\ emitted[j].group = "se"
    /\ \E i, j \in 1..Len(emitted) :
          /\ emitted[i].group = "se" /\ emitted[j].group = "se"
          /\ emitted[i].idx < emitted[j].idx


(* the reasons of the crop-finish signals in a sequence of signals *)
FinishReasons(out) ==
    {out[k].finish : k \in {j \in 1..Len(out) : out[j].signal = "CROP_FINISH"}}

(* C11: on a tick of a harvest or earliest calendar where both day >=       *)
(* crop_end_date and duration >= max_duration hold, the crop-finish carries *)
(* the reason "max_duration" and never "harvest"; the reason "harvest" is   *)
(* sent only when day >= crop_end_date and duration < max_duration; with    *)
(* max_duration = 0 the tick that sends crop-start sends a crop-finish too. *)
C11_MaxDurationPrecedence ==
    cal_day # NoDate =>
      LET dated == cal.crop_end_type \in {"harvest", "earliest"}
                   /\ cal_day >= cal.crop_end_date
          timed == cal.duration >= cal.max_duration
      IN  /\ (dated /\ timed) => FinishReasons(cal_out) = {"max_duration"}
          /\ "harvest" \in FinishReasons(cal_out) => (dated /\ ~timed)
          /\ (dated /\ ~timed) => FinishReasons(cal_out) = {"harvest"}
          /\ (cal.max_duration = 0 /\ CountSignal(cal_out, "CROP_START") > 0)
                => CountSignal(cal_out, "CROP_FINISH") = 1

C11_Witness ==
    /\ cal.crop_end_type \in {"harvest", "earliest"}
    /\ cal.max_duration > 0
    /\ cal_day = cal.crop_end_date
    /\ cal.duration >= cal.max_duration
    /\ cal_hist.n_start = 1
    /\ FinishReasons(cal_out) = {"max_duration"}


(* C12: validate fails with a validation error (exc.PCSEError) if and only  *)
(* if the effective end date (the given crop_end_date, or crop_start_date + *)
(* max_duration for maturity) is not after crop_start_date, or              *)
(* crop_start_date is outside [campaign_start, next_campaign_start), the    *)
(* upper end being open when next_campaign_start is None.                   *)
C12_ValidateIff ==
    cal_val.result # "none" =>
      LET effective_end == IF cal.crop_end_type = "maturity"
                           THEN cal.crop_start_date + cal.max_duration
                           ELSE cal.crop_end_date
          inside == /\ cal_val.campaign_start <= cal.crop_start_date
                    /\ (cal_val.next_campaign_start # NoDate
                          => cal.crop_start_date < cal_val.next_campaign_start)
      IN  cal_val.result \notin {"ok", "TypeError"}
            <=> (effective_end <= cal.crop_start_date \/ ~inside)


(* C13: on a tick that finds the watched variable in the kiosk, an entry    *)
(* whose previous sign is unset sends nothing; otherwise it sends its       *)
(* signal if and only if, for rising, the previous sign is -1 and the new   *)
(* sign is 0 or +1; for falling, the previous sign is +1 and the new sign   *)
(* is -1 or 0; for either, one of the two.  A previous sign of 0 never      *)
(* sends the signal.                                                        *)
C13_FiresOnCrossing ==
    [][("DVS" \in DOMAIN sed_kiosk' /\ sed_hist'.n = sed_hist.n + 1) =>
        \A i \in 1..Len(sed_obj.events_table) :
          LET prev == sed_obj.previous_signs[i]
              new == Sign(sed_kiosk'["DVS"] - sed_obj.events_table[i].state)
              up == prev = -1 /\ new \in {0, 1}
              down == prev = 1 /\ new \in {-1, 0}
              mode == sed_obj.zero_condition
          IN  /\ prev = NoSign => ~Fired(sed_out', i)
              /\ prev = 0 => ~Fired(sed_out', i)
              /\ prev # NoSign =>
                    (Fired(sed_out', i) <=>
                       \/ mode = "rising" /\ up
                       \/ mode = "falling" /\ down
                       \/ mode = "either" /\ (up \/ down))
      ]_vars

C13_Witness ==
    /\ sed_obj.status = "ok"
    /\ sed_obj.zero_condition = "falling"
    /\ \E i \in 1..Len(sed_obj.events_table) :
          /\ sed_hist.fired_on[i] = <<1, 0>>
          /\ Fired(sed_out, i)


(* C14: after a tick that finds the watched variable in the kiosk, the      *)
(* previous sign of every entry is the sign of current value - threshold,   *)
(* whether or not the entry sent its signal; a tick that does not find the  *)
(* variable sends nothing, raises nothing and leaves every previous sign    *)
(* as it was.                                                               *)
C14_SignsStored ==
    [][sed_hist'.n = sed_hist.n + 1 =>
        IF "DVS" \in DOMAIN sed_kiosk'
        THEN /\ sed_obj'.status = "ok"
             /\ \A i \in 1..Len(sed_obj.events_table) :
                   sed_obj'.previous_signs[i]
                     = Sign(sed_kiosk'["DVS"] - sed_obj.events_table[i].state)
        ELSE /\ sed_out' = << >>
             /\ sed_obj' = sed_obj
      ]_vars

C14_Witness ==
    /\ sed_obj.status = "ok"
    /\ sed_kiosk = EmptyKiosk
    /\ sed_hist.seen
    /\ \E i \in 1..Len(sed_obj.events_table) :
          /\ sed_hist.fires[i] > 0
          /\ sed_obj.previous_signs[i] = sed_hist.fired_on[i][2]


(* C15: a tick of a timed-events dispatcher sends nothing when the day is   *)
(* not a day of its table; otherwise it sends the configured signal once    *)
(* for every entry of that day, with the entry's payload; a dispatcher that *)
(* was constructed without error therefore sends at most one signal a tick. *)
C15_TimedEmits ==
    ted_day # NoDate =>
      LET table == ted_obj.events_table
          due == {i \in 1..Len(table) : table[i].day = ted_day}
      IN  /\ due = {} => ted_out = << >>
          /\ Len(ted_out) = Cardinality(due)
          /\ \A k \in 1..Len(ted_out) :
                /\ ted_out[k].signal = SignalValue(ted_args.event_signal)
                /\ \E i \in due : ted_out[k].kwargs = table[i].kwargs
          /\ \A i \in due :
                \E k \in 1..Len(ted_out) : ted_out[k].kwargs = table[i].kwargs
          /\ Len(ted_out) <= 1

C15_Witness ==
    /\ ted_day >= 1
    /\ Len(ted_out) = 1
    /\ Len(ted_args.events_table) >= 2
    /\ ted_out[1].kwargs = [amount |-> 2]


(* C16: a crop-finish signal that reaches the calendar from the bus sets    *)
(* in_crop_cycle to false and changes nothing else; a second delivery       *)
(* changes nothing; and on the ticks that follow, up to a tick of the start *)
(* day, the calendar stays out of its cycle and duration does not change.   *)
C16_ExternalFinishIdempotent ==
    [][/\ (cal_day' = cal_day /\ cal_val' = cal_val)
          => /\ cal' = [cal EXCEPT !.in_crop_cycle = FALSE]
             /\ CropCalendar_on_CROP_FINISH(cal') = cal'
       /\ (cal_day' # cal_day /\ ~cal.in_crop_cycle
             /\ cal_day' # cal.crop_start_date)
          => /\ cal'.duration = cal.duration
             /\ ~cal'.in_crop_cycle
      ]_vars

C16_Witness ==
    /\ cal_hist.external
    /\ cal_hist.n_start = 1
    /\ cal_hist.n_finish = 0
    /\ ~cal.in_crop_cycle
    /\ cal.duration >= 1
    /\ cal_day > cal.crop_start_date + cal.duration


(* day d is inside the window of campaign number cid: on or after its start *)
(* date and, unless it is the last campaign, before the next start date     *)
InsideCampaign(d, cid) ==
    /\ agromanagement[cid].start <= d
    /\ cid < Len(agromanagement) => d < agromanagement[cid + 1].start

(* the days of the timed events that the definition gives campaign cid *)
TimedDaysDefined(cid) ==
    LET body == agromanagement[cid].body
    IN  IF body.isNone THEN {}
        ELSE IF body.TimedEvents.isNone THEN {}
        ELSE UNION {{body.TimedEvents.tables[k].events_table[j].day :
                        j \in 1..Len(body.TimedEvents.tables[k].events_table)} :
                     k \in 1..Len(body.TimedEvents.tables)}

(* C17: after a successful initialize, the start date of every crop         *)
(* calendar and the day of every timed event of every dispatcher lie in the *)
(* window of the campaign they were built for; and initialize raises a      *)
(* validation error for a definition with a timed event outside the window  *)
(* of its campaign.                                                         *)
C17_EntriesInsideWindow ==
    /\ m_status = "ready" =>
          /\ \A q \in 1..Len(crop_calendars) :
                ~crop_calendars[q].isNone
                  => InsideCampaign(crop_calendars[q].cc.crop_start_date,
                                    crop_calendars[q].cid)
          /\ \A q \in 1..Len(timed_event_dispatchers) :
                ~timed_event_dispatchers[q].isNone
                  => \A k \in 1..Len(timed_event_dispatchers[q].teds) :
                       LET table ==
                             timed_event_dispatchers[q].teds[k].events_table
                       IN  \A j \in 1..Len(table) :
                             InsideCampaign(table[j].day,
                                            timed_event_dispatchers[q].cid)
    /\ (m_status # "new"
          /\ \E cid \in 1..Len(agromanagement) :
                \E d \in TimedDaysDefined(cid) : ~InsideCampaign(d, cid))
        => (m_status = "error" /\ m_err # "ok")

C17_Witness ==
    /\ m_status = "ready"
    /\ today = NoDate
    /\ Len(crop_calendars) >= 2
    /\ ~crop_calendars[1].isNone
    /\ ~timed_event_dispatchers[1].isNone
    /\ \E k \in 1..Len(timed_event_dispatchers[1].teds) :
          Len(timed_event_dispatchers[1].teds[k].events_table) = 2


(* C18: for a definition that initialize accepts, ticked daily from         *)
(* start_date, no campaign is retired while its crop calendar is still in   *)
(* its cycle: the crop-finish of every crop-start comes before the          *)
(* retirement.  Stated for the definitions with strictly increasing start   *)
(* dates.                                                                   *)
C18_NoCropDroppedAtBoundary ==
    (m_status = "ready" /\ daily
       /\ StrictlyIncreasing(StartDates(agromanagement)))
        => dropped = {}


(* C19: a calendar that passed validate sends no crop-finish on a tick      *)
(* before the tick of its crop-start, and every crop-finish it sends is     *)
(* sent on a tick that found it in its cycle or that started the cycle.     *)
C19_NoFinishOutsideCycle ==
    cal_val.result = "ok" =>
        /\ cal_hist.n_finish = cal_hist.n_finish_started
        /\ cal_hist.n_finish_idle = 0


(* C20: after initialize with N campaigns and after any calls for           *)
(* increasing days, the three queues have the same length N - _icampaign,   *)
(* which is at least 1; _icampaign is at most N - 1; the look-ahead         *)
(* campaign_start_dates[_icampaign + 1] is inside the list; and the front   *)
(* bundle of each queue is the one built for campaign number _icampaign.    *)
C20_QueuesAligned ==
    m_status = "ready" =>
      LET n == Len(agromanagement)
      IN  /\ Len(crop_calendars) = n - icampaign
          /\ Len(timed_event_dispatchers) = n - icampaign
          /\ Len(state_event_dispatchers) = n - icampaign
          /\ n - icampaign >= 1
          /\ icampaign <= n - 1
          /\ Len(campaign_start_dates) = n + 1
          /\ icampaign + 2 \in DOMAIN campaign_start_dates
          /\ crop_calendars[1].cid = icampaign + 1
          /\ timed_event_dispatchers[1].cid = icampaign + 1
          /\ state_event_dispatchers[1].cid = icampaign + 1

C20_Witness ==
    /\ m_status = "ready"
    /\ Len(agromanagement) = 3
    /\ icampaign = 2
    /\ today = MaxDay
    /\ Len(crop_calendars) = 1


(* what end_date gives when it is read directly after initialize *)
EndDateAfterInitialize(definition) ==
    LET r == AgroManager_initialize(definition)
    IN  AgroManager_compute_end_date(r.crop_calendars,
                                     r.timed_event_dispatchers)

(* C21: end_date and start_date give the same value whenever they are first *)
(* read: a first read after some calls, calls that retired campaigns        *)
(* included, gives what a read directly after initialize gives, and the     *)
(* value kept is that one.  Stated for daily ticks of the definitions with  *)
(* strictly increasing start dates for which the read directly after        *)
(* initialize returns a date.                                               *)
C21_EndDateWheneverRead ==
    (/\ m_status = "ready" /\ daily
     /\ StrictlyIncreasing(StartDates(agromanagement))
     /\ EndDateAfterInitialize(agromanagement).status = "ok")
    => /\ m_start_date # NoDate => m_start_date = agromanagement[1].start
       /\ end_read.status # "none"
            => end_read = EndDateAfterInitialize(agromanagement)
       /\ m_end_date # NoDate
            => m_end_date = EndDateAfterInitialize(agromanagement).value

(* the timed-event entries of the definition: campaign, table, entry and    *)
(* the day the entry is defined for                                         *)
TimedEntriesDefined ==
    UNION {IF agromanagement[cid].body.isNone THEN {}
           ELSE IF agromanagement[cid].body.TimedEvents.isNone THEN {}
           ELSE LET tables == agromanagement[cid].body.TimedEvents.tables
                IN  UNION {{[cid |-> cid, idx |-> k, entry |-> j,
                             day |-> tables[k].events_table[j].day] :
                               j \in 1..Len(tables[k].events_table)} :
                           k \in 1..Len(tables)} :
           cid \in 1..Len(agromanagement)}

(* the number of times that the log holds the record e *)
TimesSent(e) == Cardinality({p \in 1..Len(te_log) : te_log[p] = e})

(* C22: for a definition accepted by initialize with strictly increasing    *)
(* campaign start dates, during a run of daily calls from start_date every  *)
(* timed event sent is an entry of the definition sent on its own day, and  *)
(* none is sent twice; once the run has gone through end_date, every entry  *)
(* of every campaign has been sent exactly once.                            *)
C22_TimedEventsOnceOnTheirDay ==
    (/\ m_status = "ready" /\ daily
     /\ StrictlyIncreasing(StartDates(agromanagement)))
    => /\ \A p \in 1..Len(te_log) :
            /\ te_log[p] \in TimedEntriesDefined
            /\ TimesSent(te_log[p]) = 1
       /\ (/\ EndDateAfterInitialize(agromanagement).status = "ok"
           /\ today # NoDate
           /\ today >= EndDateAfterInitialize(agromanagement).value)
          => \A e \in TimedEntriesDefined : TimesSent(e) = 1

(* a daily run through end_date of two campaigns with timed events, the     *)
(* first with two tables: all five entries were sent                        *)
C22_Witness ==
    /\ m_status = "ready" /\ daily
    /\ StrictlyIncreasing(StartDates(agromanagement))
    /\ EndDateAfterInitialize(agromanagement).status = "ok"
    /\ today # NoDate
    /\ today >= EndDateAfterInitialize(agromanagement).value
    /\ Cardinality(TimedEntriesDefined) >= 4
    /\ \E e, f \in TimedEntriesDefined : e.cid # f.cid
    /\ \E e, f \in TimedEntriesDefined : e.cid = f.cid /\ e.idx # f.idx
    /\ Len(te_log) = Cardinality(TimedEntriesDefined)
    /\ icampaign >= 1

====
